---- MODULE Spec2Model ----
(***************************************************************************)
(* Model of the AudioRecorder class of static/js/recorder.js: capability   *)
(* negotiation (getSupportedMimeTypes) and the recording session           *)
(* controller (permission, stream acquisition, capture, finalization).     *)
(* The class defines several methods twice; a later definition of a class  *)
(* member replaces the earlier one, so the later bodies are modelled.      *)
(***************************************************************************)
EXTENDS Integers, Sequences, FiniteSets, TLC

\* ------------------------------------------------------------- bounds
MaxRecorders == 2      \* MediaRecorder objects created in one run
MaxLeaks     == 1      \* active streams that nothing refers to any more
MaxCalls     == 2      \* async calls (startRecording / requestPermission) in flight
MaxChunks    == 2      \* non-empty chunks one recorder delivers
MaxAttempts  == 4      \* cap of the retryAttempts counter
MaxRuns      == 2      \* cap of the count of negotiation runs
MaxDownloads == 2      \* clicks on the download button in one run

\* --------------------------------------------------- program constants
maxRetryAttempts == 3

Undefined == "undefined"

BrowserNames == {"chrome", "firefox", "safari", "unknown"}

MimeTypes ==
  {"audio/webm", "audio/webm;codecs=opus", "audio/ogg",
   "audio/ogg;codecs=opus", "audio/wav", "audio/mp4"}

\* What MediaRecorder.isTypeSupported does for one type: answer or throw.
SupportAnswers == {"yes", "no", "throws"}

PermissionStates == {"granted", "denied", "prompt"}

VARIABLES
  \* ---- the environment
  browserName,          \* browserInfo.name
  featuresOk,           \* every entry of supportedFeatures is true
  typeSupport,          \* MediaRecorder.isTypeSupported, per type
  perm,                 \* the live microphone permission (permissionStatus.state)
  persisted,            \* localStorage 'microphonePermission' ("none": no entry)
  subscribed,           \* permissionStatus.onchange is set
  \* ---- the controller's fields
  supportedMimeTypes,   \* this.supportedMimeTypes
  primaryMimeType,      \* this.primaryMimeType
  mediaRecorder,        \* this.mediaRecorder: 0 (null) or a recorder id
  audioChunks,          \* this.audioChunks: sequence of [rec, size]
  isRecording,          \* this.isRecording
  permissionGranted,    \* this.permissionGranted
  retryAttempts,        \* this.retryAttempts
  connectionMonitorInterval, \* the liveness interval is pending
  streamRetryTimeout,   \* the retry timer is pending
  \* ---- the page
  listeners,            \* initializeEventListeners has run
  recordButtonDisabled, \* recordButton.disabled
  stopButtonDisabled,   \* stopButton.disabled
  permissionSection,    \* "hidden" (d-none), "warning" or "error"
  status,               \* the message last written to statusIndicator
  oldUrl,               \* audioPlayer.dataset.oldUrl / audioPlayer.src: 0 or a url id
  audioContainerShown,  \* audioContainer has lost d-none
  \* ---- runtime objects
  recorders,            \* the MediaRecorder objects created so far
  leakedStreams,        \* active streams that no recorder holds (nothing can stop them)
  liveUrls,             \* object URLs created and not revoked
  urlCount,             \* number of object URLs created for playback
  calls,                \* async calls awaiting getAudioStream: where -> how many
  initPc,               \* initializeRecorder: "query" (awaiting the query) or "done"
  \* ---- what the last handler did, and history
  compat,               \* what the last checkBrowserCompatibility returned
  asked,                \* the answers isTypeSupported gave to the last negotiation
  negotiationRuns,      \* getSupportedMimeTypes executions (saturates at MaxRuns)
  retriesScheduled,     \* retry timers set since retryAttempts was last 0
  artifact,             \* the blob behind audioPlayer.src: its size and type
  finalized,            \* what the recorder whose stop event came last had delivered
  getUserMediaCalls,    \* getUserMedia calls made for requestPermission since
                        \* retryAttempts was last reset
  tried,                \* the formats new MediaRecorder was called with by the
                        \* startRecording that settled last
  download,             \* downloadRecording: calls, files offered, the last a.download,
                        \* object URLs awaiting their 100 ms revocation
  uncaught              \* the last handler ended in an uncaught error

vars == <<browserName, featuresOk, typeSupport, perm, persisted, subscribed,
          supportedMimeTypes, primaryMimeType, mediaRecorder, audioChunks,
          isRecording, permissionGranted, retryAttempts,
          connectionMonitorInterval, streamRetryTimeout, listeners,
          recordButtonDisabled, stopButtonDisabled, permissionSection, status,
          oldUrl, audioContainerShown, recorders, leakedStreams,
          liveUrls, urlCount, calls, initPc, compat, asked, negotiationRuns,
          retriesScheduled, artifact, finalized, getUserMediaCalls, tried,
          download, uncaught>>

\* The whole state as one record: the handlers below are functions from such
\* a record to the record they leave, so that a handler can call another.
Cur ==
  [browserName |-> browserName, featuresOk |-> featuresOk,
   typeSupport |-> typeSupport, perm |-> perm, persisted |-> persisted,
   subscribed |-> subscribed, supportedMimeTypes |-> supportedMimeTypes,
   primaryMimeType |-> primaryMimeType, mediaRecorder |-> mediaRecorder,
   audioChunks |-> audioChunks, isRecording |-> isRecording,
   permissionGranted |-> permissionGranted, retryAttempts |-> retryAttempts,
   connectionMonitorInterval |-> connectionMonitorInterval,
   streamRetryTimeout |-> streamRetryTimeout, listeners |-> listeners,
   recordButtonDisabled |-> recordButtonDisabled,
   stopButtonDisabled |-> stopButtonDisabled,
   permissionSection |-> permissionSection, status |-> status,
   oldUrl |-> oldUrl, audioContainerShown |-> audioContainerShown,
   recorders |-> recorders, leakedStreams |-> leakedStreams, liveUrls |-> liveUrls, urlCount |-> urlCount,
   calls |-> calls, initPc |-> initPc, compat |-> compat, asked |-> asked,
   negotiationRuns |-> negotiationRuns, retriesScheduled |-> retriesScheduled,
   artifact |-> artifact, finalized |-> finalized,
   getUserMediaCalls |-> getUserMediaCalls, tried |-> tried,
   download |-> download,
   uncaught |-> uncaught]

Commit(s) ==
  /\ browserName' = s.browserName /\ featuresOk' = s.featuresOk
  /\ typeSupport' = s.typeSupport /\ perm' = s.perm
  /\ persisted' = s.persisted /\ subscribed' = s.subscribed
  /\ supportedMimeTypes' = s.supportedMimeTypes
  /\ primaryMimeType' = s.primaryMimeType
  /\ mediaRecorder' = s.mediaRecorder /\ audioChunks' = s.audioChunks
  /\ isRecording' = s.isRecording
  /\ permissionGranted' = s.permissionGranted
  /\ retryAttempts' = s.retryAttempts
  /\ connectionMonitorInterval' = s.connectionMonitorInterval
  /\ streamRetryTimeout' = s.streamRetryTimeout
  /\ listeners' = s.listeners
  /\ recordButtonDisabled' = s.recordButtonDisabled
  /\ stopButtonDisabled' = s.stopButtonDisabled
  /\ permissionSection' = s.permissionSection /\ status' = s.status
  /\ oldUrl' = s.oldUrl /\ audioContainerShown' = s.audioContainerShown
  /\ recorders' = s.recorders /\ leakedStreams' = s.leakedStreams
  /\ liveUrls' = s.liveUrls
  /\ urlCount' = s.urlCount /\ calls' = s.calls /\ initPc' = s.initPc
  /\ compat' = s.compat /\ asked' = s.asked
  /\ negotiationRuns' = s.negotiationRuns
  /\ retriesScheduled' = s.retriesScheduled /\ artifact' = s.artifact
  /\ finalized' = s.finalized /\ getUserMediaCalls' = s.getUserMediaCalls
  /\ tried' = s.tried /\ download' = s.download
  /\ uncaught' = s.uncaught

\* ------------------------------------------------------ list helpers
RECURSIVE Dedup(_)
\* [...new Set(list)]: duplicates dropped, first-seen order kept
Dedup(list) ==
  IF list = <<>> THEN <<>>
  ELSE LET front == Dedup(SubSeq(list, 1, Len(list) - 1))
           last  == list[Len(list)]
       IN IF \E i \in 1..Len(front) : front[i] = last
          THEN front ELSE Append(front, last)

Includes(list, x) == \E i \in 1..Len(list) : list[i] = x

RECURSIVE Filter(_, _)
\* Array.prototype.filter with a per-element answer
Filter(list, keep) ==
  IF list = <<>> THEN <<>>
  ELSE LET front == Filter(SubSeq(list, 1, Len(list) - 1), keep)
           last  == list[Len(list)]
       IN IF keep[last] THEN Append(front, last) ELSE front

\* Array.prototype.find over membership in `among`: the first hit or undefined
FindIn(list, among) ==
  IF \E i \in 1..Len(list) : Includes(among, list[i])
  THEN list[CHOOSE i \in 1..Len(list) :
              /\ Includes(among, list[i])
              /\ \A j \in 1..(i - 1) : ~Includes(among, list[j])]
  ELSE Undefined

\* --------------------------------------------------------- negotiation
defaultMimeTypes(name) ==
  CASE name = "chrome"  -> <<"audio/webm", "audio/webm;codecs=opus">>
    [] name = "firefox" -> <<"audio/ogg", "audio/ogg;codecs=opus", "audio/webm">>
    [] name = "safari"  -> <<"audio/mp4", "audio/wav">>
    [] OTHER            -> <<"audio/webm", "audio/ogg", "audio/wav", "audio/mp4">>

preferredTypes(name) == defaultMimeTypes(name)

allTypes(name) == Dedup(preferredTypes(name) \o defaultMimeTypes("default"))

IsTypeSupportedThrowsAsTrue(support, t) == support[t] # "no"

\* the filter callback: try { return isTypeSupported(t) } catch { return false }
IsTypeSupported(support, t) == support[t] = "yes"

PrimaryLastSupported(name, supported, old) ==
  IF Len(supported) > 0 THEN supported[Len(supported)] ELSE old

\* this.primaryMimeType after getSupportedMimeTypes: assigned only when the
\* filtered list is not empty, otherwise left as it was
SelectPrimary(name, supported, old) ==
  IF Len(supported) > 0
  THEN LET found == FindIn(supported, preferredTypes(name))
       IN IF found # Undefined THEN found ELSE supported[1]
  ELSE old

\* the list getSupportedMimeTypes returns
getSupportedMimeTypes(name, support) ==
  Filter(allTypes(name), [t \in MimeTypes |-> IsTypeSupported(support, t)])

\* checkBrowserCompatibility: the fields it leaves and what it returns
checkBrowserCompatibility(n) ==
  IF ~n.featuresOk
  THEN [n EXCEPT !.compat = "missingFeatures"]
  ELSE LET supported == getSupportedMimeTypes(n.browserName, n.typeSupport)
       IN [n EXCEPT !.supportedMimeTypes = supported,
                    !.asked = n.typeSupport,
                    !.primaryMimeType =
                       SelectPrimary(n.browserName, supported, n.primaryMimeType),
                    !.negotiationRuns = IF @ < MaxRuns THEN @ + 1 ELSE @,
                    !.compat = IF Len(supported) = 0 THEN "noFormats" ELSE "supported"]


\* ------------------------------------------------------ runtime objects
NoRecorder ==
  [state |-> "none", streamActive |-> FALSE, mimeType |-> Undefined,
   stopEvt |-> FALSE, emitted |-> <<>>, tracks |-> <<>>]

NoArtifact == [size |-> 0, type |-> Undefined]

NotFinalized == [rec |-> 0, emitted |-> <<>>, published |-> FALSE]

\* no call of downloadRecording yet; a.download is a sequence of pieces of text
NoDownload == [calls |-> 0, files |-> 0, name |-> <<>>, urls |-> 0]

RecorderIds == 1..MaxRecorders

NumRecorders(s) == Cardinality({r \in RecorderIds : s.recorders[r].state # "none"})

\* Where a call awaits getAudioStream: "perm" in requestPermission called by
\* the permission button or the retry timer, "startPerm" in requestPermission
\* called by startRecording, "startAcq" in startRecording itself.
CallKeys == {"perm", "startPerm", "startAcq"}

RECURSIVE SumCalls(_, _)
SumCalls(c, keys) ==
  IF keys = {} THEN 0
  ELSE LET k == CHOOSE x \in keys : TRUE IN c[k] + SumCalls(c, keys \ {k})

NumCalls(s) == SumCalls(s.calls, CallKeys)

RECURSIVE SumSizes(_)
\* the byte length of new Blob(chunks)
SumSizes(chunks) ==
  IF chunks = <<>> THEN 0 ELSE chunks[1].size + SumSizes(Tail(chunks))

\* A MediaStream as getUserMedia may return it: its audio tracks in order, each
\* with its enabled flag and whether readyState is 'live'.
Track(enabled, live) == [enabled |-> enabled, live |-> live]

StreamShapes ==
  { <<Track(TRUE, TRUE)>>, <<Track(FALSE, TRUE)>>, <<Track(TRUE, FALSE)>>,
    <<Track(TRUE, FALSE), Track(TRUE, TRUE)>> }

\* MediaStream.active: some track has not ended
StreamActive(shape) == \E i \in 1..Len(shape) : shape[i].live

validateStream(shape) ==
  IF ~StreamActive(shape) THEN FALSE
  ELSE IF Len(shape) = 0 THEN FALSE
  ELSE shape[1].enabled /\ shape[1].live

\* What getUserMedia answers to one attempt: it rejects, or resolves with a stream.
Rejected == [ok |-> FALSE, tracks |-> <<>>]
Got(shape) == [ok |-> TRUE, tracks |-> shape]

RECURSIVE getAudioStream(_, _)
\* getAudioStream(retryCount) over the answers to its successive attempts:
\* the stream it returns or that it throws, the getUserMedia calls it made,
\* and how many active streams it dropped on the way (a stream that fails
\* validation is retried over without being released). Its awaits touch no
\* field of the controller, so one step of a call stands for all of them.
getAudioStream(answers, retryCount) ==
  LET a == answers[1]
  IN IF a.ok /\ validateStream(a.tracks)
     THEN [returned |-> TRUE, attempts |-> 1, dropped |-> 0, tracks |-> a.tracks]
     ELSE LET d == IF a.ok /\ StreamActive(a.tracks) THEN 1 ELSE 0
          IN IF retryCount < maxRetryAttempts
             THEN LET rest == getAudioStream(Tail(answers), retryCount + 1)
                  IN [rest EXCEPT !.attempts = @ + 1, !.dropped = @ + d]
             ELSE [returned |-> FALSE, attempts |-> 1, dropped |-> d, tracks |-> <<>>]

\* the sizes of the chunks a dataavailable event may carry
ChunkSizes == {0, 2}

\* ------------------------------------------------------ page helpers
updateStatus(s, message) == [s EXCEPT !.status = message]

updateUI(s, recording) ==
  updateStatus([s EXCEPT !.recordButtonDisabled = recording,
                         !.stopButtonDisabled = ~recording],
               IF recording THEN "recording" ELSE "stopped")

showPermissionSection(s, type) ==
  [s EXCEPT !.permissionSection = type, !.recordButtonDisabled = TRUE]

hidePermissionSection(s) ==
  [s EXCEPT !.permissionSection = "hidden", !.recordButtonDisabled = FALSE]

handlePermissionChange(s, state) ==
  CASE state = "granted" ->
         updateStatus([hidePermissionSection([s EXCEPT !.permissionGranted = TRUE])
                         EXCEPT !.recordButtonDisabled = FALSE], "ready")
    [] state = "denied" ->
         updateStatus(showPermissionSection([s EXCEPT !.permissionGranted = FALSE],
                                            "error"), "denied")
    [] state = "prompt" ->
         updateStatus(showPermissionSection([s EXCEPT !.permissionGranted = FALSE],
                                            "warning"), "prompt")
    [] OTHER -> s

persistPermissionState(s, state) == [s EXCEPT !.persisted = state]

loadPersistedPermissionState(s) ==
  IF s.persisted # "none" THEN handlePermissionChange(s, s.persisted) ELSE s

\* ------------------------------------------------------ streams, monitor
\* releaseStream(recorder.stream): every track of the stream of recorder r is
\* stopped, when the stream is active
releaseStream(s, r) ==
  IF r # 0 /\ s.recorders[r].streamActive
  THEN [s EXCEPT !.recorders[r].streamActive = FALSE]
  ELSE s

stopConnectionMonitoring(s) == [s EXCEPT !.connectionMonitorInterval = FALSE]

\* clears any existing interval, then sets the new one
startConnectionMonitoring(s) ==
  [stopConnectionMonitoring(s) EXCEPT !.connectionMonitorInterval = TRUE]

\* ------------------------------------------------------ finalization
processRecordingKeepsOldUrl(s, blobThrows) ==
  IF blobThrows THEN updateStatus(s, "processError")
  ELSE LET mimeType ==
             IF s.mediaRecorder # 0
                /\ s.recorders[s.mediaRecorder].mimeType # Undefined
             THEN s.recorders[s.mediaRecorder].mimeType
             ELSE s.primaryMimeType
           url == s.urlCount + 1
       IN [s EXCEPT !.liveUrls = @ \cup {url},
                    !.urlCount = url, !.oldUrl = url,
                    !.audioContainerShown = TRUE,
                    !.artifact = [size |-> SumSizes(s.audioChunks),
                                  type |-> mimeType]]

processRecordingAsWebm(s, blobThrows) ==
  IF blobThrows THEN updateStatus(s, "processError")
  ELSE LET url == s.urlCount + 1
       IN [s EXCEPT !.liveUrls = (@ \ {s.oldUrl}) \cup {url},
                    !.urlCount = url, !.oldUrl = url,
                    !.audioContainerShown = TRUE,
                    !.artifact = [size |-> SumSizes(s.audioChunks),
                                  type |-> "audio/webm"]]

\* processRecording; blobThrows: the Blob constructor throws, which the
\* method's catch turns into the error status
processRecording(s, blobThrows) ==
  IF blobThrows THEN updateStatus(s, "processError")
  ELSE LET mimeType ==
             IF s.mediaRecorder # 0
                /\ s.recorders[s.mediaRecorder].mimeType # Undefined
             THEN s.recorders[s.mediaRecorder].mimeType
             ELSE s.primaryMimeType
           url == s.urlCount + 1
       IN [s EXCEPT !.liveUrls = (@ \ {s.oldUrl}) \cup {url},
                    !.urlCount = url, !.oldUrl = url,
                    !.audioContainerShown = TRUE,
                    !.artifact = [size |-> SumSizes(s.audioChunks),
                                  type |-> mimeType]]

\* ------------------------------------------------------ download
\* A MIME type as text, cut into the pieces that split() can tell apart.
Text(mimeType) ==
  CASE mimeType = "audio/webm"             -> <<"audio", "/", "webm">>
    [] mimeType = "audio/webm;codecs=opus" -> <<"audio", "/", "webm", ";", "codecs=opus">>
    [] mimeType = "audio/ogg"              -> <<"audio", "/", "ogg">>
    [] mimeType = "audio/ogg;codecs=opus"  -> <<"audio", "/", "ogg", ";", "codecs=opus">>
    [] mimeType = "audio/wav"              -> <<"audio", "/", "wav">>
    [] mimeType = "audio/mp4"              -> <<"audio", "/", "mp4">>

RECURSIVE Split(_, _)
\* String.prototype.split: the texts between the separators, in order
Split(text, separator) ==
  IF text = <<>> THEN << <<>> >>
  ELSE LET front == Split(SubSeq(text, 1, Len(text) - 1), separator)
           last  == text[Len(text)]
       IN IF last = separator THEN Append(front, <<>>)
          ELSE [front EXCEPT ![Len(front)] = Append(@, last)]

\* browserInfo.name.includes('chrome'): of the names detectBrowser gives,
\* only 'chrome' contains it
IncludesChrome(name) == name = "chrome"

extensionKeepsWebm(mimeType, name) ==
  Split(Split(Text(mimeType), "/")[2], ";")[1]

\* the extension downloadRecording computes (indices count from 1 here)
extension(mimeType, name) ==
  LET subtype == Split(Split(Text(mimeType), "/")[2], ";")[1]
  IN IF subtype = <<"webm">> /\ ~IncludesChrome(name) THEN <<"wav">> ELSE subtype

\* downloadRecording; blobThrows: the Blob constructor or createObjectURL
\* throws, which the method's catch turns into the error status. With no
\* MIME type mimeType.split throws, to the same catch.
downloadRecording(s, blobThrows) ==
  IF s.audioChunks = <<>> THEN s
  ELSE LET mimeType ==
             IF s.mediaRecorder # 0
                /\ s.recorders[s.mediaRecorder].mimeType # Undefined
             THEN s.recorders[s.mediaRecorder].mimeType
             ELSE s.primaryMimeType
       IN IF blobThrows \/ mimeType = Undefined
          THEN updateStatus(s, "downloadError")
          ELSE [s EXCEPT !.download.files = @ + 1,
                         !.download.urls = @ + 1,
                         !.download.name =
                            <<"recording", ".">> \o extension(mimeType, s.browserName)]

\* ------------------------------------------------------ stop, errors
\* MediaRecorder.stop() on a recording recorder: inactive at once, the
\* dataavailable and stop events follow in a later task
MediaRecorderStop(rec) ==
  IF rec.state = "recording"
  THEN [rec EXCEPT !.state = "inactive", !.stopEvt = TRUE]
  ELSE rec

stopRecordingUnguarded(s, inactiveStopThrows) ==
  IF s.mediaRecorder # 0
  THEN LET r   == s.mediaRecorder
           rec == s.recorders[r]
       IN IF rec.state = "inactive" /\ inactiveStopThrows
          THEN [s EXCEPT !.uncaught = TRUE]
          ELSE releaseStream(
                 updateUI([s EXCEPT !.recorders[r] = MediaRecorderStop(rec),
                                    !.isRecording = FALSE], FALSE),
                 r)
  ELSE s

\* stopRecording. On an inactive recorder stop() either returns or throws
\* InvalidStateError, depending on the runtime (inactiveStopThrows). The catch
\* calls handleRecordingError, which calls stopRecording with isRecording
\* still true: the two recurse until the stack overflows, and the RangeError
\* leaves every frame through a catch block or handleRecordingError, so the
\* handler ends uncaught with the fields as they were.
stopRecording(s, inactiveStopThrows) ==
  IF s.mediaRecorder # 0 /\ s.isRecording
  THEN LET r   == s.mediaRecorder
           rec == s.recorders[r]
       IN IF rec.state = "inactive" /\ inactiveStopThrows
          THEN [s EXCEPT !.uncaught = TRUE]
          ELSE releaseStream(
                 updateUI([s EXCEPT !.recorders[r] = MediaRecorderStop(rec),
                                    !.isRecording = FALSE], FALSE),
                 r)
  ELSE s

handleRecordingError(s, inactiveStopThrows) ==
  LET s1 == stopRecording(s, inactiveStopThrows)
  IN IF s1.uncaught THEN s1
     ELSE LET s2 == updateStatus(s1, "recFailed")
          IN IF s2.mediaRecorder # 0
             THEN releaseStream(s2, s2.mediaRecorder)
             ELSE s2

handlePermissionErrorAlwaysRetries(s) ==
  LET s1 == [s EXCEPT !.retryAttempts = @ + 1]
  IN [showPermissionSection(updateStatus(s1, "permRetry"), "warning")
        EXCEPT !.streamRetryTimeout = TRUE, !.retriesScheduled = @ + 1]

handlePermissionError(s) ==
  LET s1 == [s EXCEPT !.retryAttempts = @ + 1]
  IN IF s1.retryAttempts < maxRetryAttempts
     THEN [showPermissionSection(updateStatus(s1, "permRetry"), "warning")
             EXCEPT !.streamRetryTimeout = TRUE, !.retriesScheduled = @ + 1]
     ELSE showPermissionSection(updateStatus(s1, "permFatal"), "error")


\* ------------------------------------------------------ async calls
AddCall(s, pc) == [s EXCEPT !.calls[pc] = @ + 1]
DropCall(s, pc) == [s EXCEPT !.calls[pc] = @ - 1]

\* Active streams that nothing refers to any more.
leak(s, n) == [s EXCEPT !.leakedStreams = @ + n]

\* requestPermission after getAudioStream returned a stream: the stream is
\* released at once (it is valid, hence active, and held by nothing else)
requestPermissionGranted(s) ==
  LET s1 == hidePermissionSection([s EXCEPT !.permissionGranted = TRUE])
  IN [updateStatus(s1, "ready") EXCEPT !.retryAttempts = 0, !.retriesScheduled = 0,
                                       !.getUserMediaCalls = 0]

fallbackFormatLast(s) ==
  IF \E i \in 1..Len(s.supportedMimeTypes) : s.supportedMimeTypes[i] # s.primaryMimeType
  THEN s.supportedMimeTypes[CHOOSE i \in 1..Len(s.supportedMimeTypes) :
         /\ s.supportedMimeTypes[i] # s.primaryMimeType
         /\ \A j \in (i + 1)..Len(s.supportedMimeTypes) :
              s.supportedMimeTypes[j] = s.primaryMimeType]
  ELSE Undefined

\* supportedMimeTypes.find(format => format !== primaryMimeType)
fallbackFormat(s) ==
  IF \E i \in 1..Len(s.supportedMimeTypes) : s.supportedMimeTypes[i] # s.primaryMimeType
  THEN s.supportedMimeTypes[CHOOSE i \in 1..Len(s.supportedMimeTypes) :
         /\ s.supportedMimeTypes[i] # s.primaryMimeType
         /\ \A j \in 1..(i - 1) : s.supportedMimeTypes[j] = s.primaryMimeType]
  ELSE Undefined

\* the formats passed to new MediaRecorder, in order: the primary, and after
\* its rejection the fallback format when there is one
constructorCalls(s, create) ==
  IF create = "primary" \/ fallbackFormat(s) = Undefined
  THEN <<s.primaryMimeType>>
  ELSE <<s.primaryMimeType, fallbackFormat(s)>>

\* no MediaRecorder is constructed: both constructor calls throw, or the
\* first throws and there is no fallback format
creationRejected(s, create) ==
  create = "rejected" \/ (create = "fallback" /\ fallbackFormat(s) = Undefined)

\* startRecording from the validated stream on. create: "primary" (the first
\* constructor call succeeds), "fallback" (it throws and the second succeeds)
\* or "rejected" (no constructor call succeeds, or there is no fallback).
startCapture(s0, stream, create, startThrows, inactiveStopThrows) ==
  LET s == [s0 EXCEPT !.tried = constructorCalls(s0, create)] IN
  IF creationRejected(s, create)
  THEN handleRecordingError(leak(s, 1), inactiveStopThrows)
  ELSE LET r  == NumRecorders(s) + 1
           s1 == [s EXCEPT !.recorders[r] =
                             [NoRecorder EXCEPT !.state = "inactive",
                                !.tracks = stream,
                                !.streamActive = TRUE,
                                !.mimeType = IF create = "primary"
                                             THEN s.primaryMimeType
                                             ELSE fallbackFormat(s)],
                           !.mediaRecorder = r,
                           !.audioChunks = <<>>]
       IN IF startThrows
          THEN handleRecordingError(s1, inactiveStopThrows)
          ELSE startConnectionMonitoring(
                 updateUI([s1 EXCEPT !.recorders[r].state = "recording",
                                     !.isRecording = TRUE], TRUE))

\* requestPermission once its getAudioStream has settled
requestPermission(s, got) ==
  IF got.returned THEN requestPermissionGranted(s) ELSE handlePermissionError(s)

Start == [Cur EXCEPT !.uncaught = FALSE]

\* stop() can only throw where a handler reaches it: isRecording is set
StopThrowChoices == IF isRecording THEN BOOLEAN ELSE {FALSE}

\* The answers one getAudioStream call may meet: rejections and streams it
\* does not accept, then a stream it accepts, or the former up to the ceiling.
FailedAnswers == {Rejected} \cup {Got(shape) : shape \in {x \in StreamShapes : ~validateStream(x)}}

AnswerSeqs ==
  UNION { { f \o <<Got(shape)>> : f \in [1..k -> FailedAnswers],
                                  shape \in {x \in StreamShapes : validateStream(x)} }
          : k \in 0..maxRetryAttempts }
  \cup [1..(maxRetryAttempts + 1) -> FailedAnswers]

\* what a getAudioStream(0) call can come to
Outcomes == { getAudioStream(answers, 0) : answers \in AnswerSeqs }

\* isTypeSupported answering yes for exactly the types in `yes`
Answers(yes) == [t \in MimeTypes |-> IF t \in yes THEN "yes" ELSE "no"]

\* the answers the runtime may change to: no type, or a single one
LaterSupport == {Answers({})} \cup {Answers({t}) : t \in MimeTypes}

\* ------------------------------------------------------ actions
\* initializeRecorder resumes: the permission query settles, then the
\* persisted state is loaded
InitQuerySettles ==
  /\ initPc = "query"
  /\ \E queryOk \in BOOLEAN :
       LET s0 == [Start EXCEPT !.initPc = "done"]
           s1 == IF queryOk
                 THEN handlePermissionChange([s0 EXCEPT !.subscribed = TRUE], s0.perm)
                 ELSE updateStatus(showPermissionSection(s0, "error"), "permCheckFailed")
       IN Commit(loadPersistedPermissionState(s1))

\* the permission subsystem changes state; onchange runs when subscribed
PermissionChanges ==
  \E state \in PermissionStates \ {perm} :
    LET s0 == [Start EXCEPT !.perm = state]
    IN Commit(IF subscribed
              THEN persistPermissionState(handlePermissionChange(s0, state), state)
              ELSE s0)

\* the runtime's answers to isTypeSupported change (a codec goes or comes)
SupportChanges ==
  \E support \in LaterSupport \ {typeSupport} :
    Commit([Start EXCEPT !.typeSupport = support])

\* click on the record button: startRecording up to its first await
RecordClick ==
  /\ listeners /\ ~recordButtonDisabled
  /\ NumCalls(Cur) < MaxCalls
  /\ LET s1 == checkBrowserCompatibility(Start)
     IN Commit(IF s1.compat # "supported" THEN updateStatus(s1, "incompatible")
               ELSE IF ~s1.permissionGranted THEN AddCall(s1, "startPerm")
               ELSE AddCall(s1, "startAcq"))

\* click on the permission button: requestPermission up to its await
PermissionClick ==
  /\ listeners /\ permissionSection # "hidden"
  /\ NumCalls(Cur) < MaxCalls
  /\ Commit(AddCall(Start, "perm"))

\* the retry timer set by handlePermissionError fires
RetryTimerFires ==
  /\ streamRetryTimeout
  /\ NumCalls(Cur) < MaxCalls
  /\ Commit(AddCall([Start EXCEPT !.streamRetryTimeout = FALSE], "perm"))

\* getAudioStream settles inside requestPermission; called from
\* startRecording, the caller goes on to its own getAudioStream when
\* permissionGranted is set
ProbeSettles ==
  \E pc \in {"perm", "startPerm"} :
    /\ calls[pc] > 0
    /\ \E got \in Outcomes :
         /\ got.returned => perm # "denied"
         /\ ~got.returned => retryAttempts < MaxAttempts
         /\ leakedStreams + got.dropped <= MaxLeaks
         /\ LET s0 == [Start EXCEPT !.getUserMediaCalls = @ + got.attempts]
                s1 == requestPermission(leak(DropCall(s0, pc), got.dropped), got)
            IN Commit(IF pc = "startPerm" /\ s1.permissionGranted
                      THEN AddCall(s1, "startAcq") ELSE s1)

\* getAudioStream settles inside startRecording: the rest of startRecording
AcquisitionSettles ==
  /\ calls["startAcq"] > 0
  /\ \E got \in Outcomes, inactiveStopThrows \in StopThrowChoices :
       LET s1 == leak(DropCall(Start, "startAcq"), got.dropped)
       IN /\ got.returned => perm # "denied"
          /\ leakedStreams + got.dropped <= MaxLeaks
          /\ IF got.returned /\ validateStream(got.tracks)
             THEN \E create \in {"primary", "fallback", "rejected"},
                     startThrows \in BOOLEAN :
                    /\ IF creationRejected(s1, create)
                       THEN s1.leakedStreams < MaxLeaks
                       ELSE NumRecorders(s1) < MaxRecorders
                    /\ Commit(startCapture(s1, got.tracks, create, startThrows,
                                           inactiveStopThrows))
             ELSE Commit(handleRecordingError([s1 EXCEPT !.tried = <<>>],
                                              inactiveStopThrows))

\* click on the stop button
StopClick ==
  /\ listeners /\ ~stopButtonDisabled
  /\ \E inactiveStopThrows \in StopThrowChoices :
       Commit(stopRecording(Start, inactiveStopThrows))

\* a recording recorder delivers a chunk: ondataavailable
RecorderData ==
  \E r \in RecorderIds, size \in ChunkSizes :
    /\ recorders[r].state = "recording"
    /\ size > 0 => Len(recorders[r].emitted) < MaxChunks
    /\ Commit(IF size > 0
              THEN [Start EXCEPT !.audioChunks = Append(@, [rec |-> r, size |-> size]),
                                 !.recorders[r].emitted = Append(@, size)]
              ELSE Start)

\* the runtime ends a recording on its own (its tracks ended, or it could
\* not go on): the recorder is inactive, its events follow
RuntimeStops ==
  \E r \in RecorderIds, tracksEnded \in BOOLEAN :
    /\ recorders[r].state = "recording"
    /\ Commit([Start EXCEPT !.recorders[r] =
                              [MediaRecorderStop(@)
                                 EXCEPT !.streamActive = @ /\ ~tracksEnded]])

\* the runtime reports an error of a recording recorder: onerror
RuntimeError ==
  \E r \in RecorderIds, inactiveStopThrows \in StopThrowChoices :
    /\ recorders[r].state = "recording"
    /\ Commit(handleRecordingError(
                [Start EXCEPT !.recorders[r] = MediaRecorderStop(@)],
                inactiveStopThrows))

\* the events that end a recording: the last dataavailable, then stop, whose
\* handler is onstop
StopEvent ==
  \E r \in RecorderIds, size \in ChunkSizes, blobThrows \in BOOLEAN :
    /\ recorders[r].stopEvt
    /\ size > 0 => Len(recorders[r].emitted) < MaxChunks
    /\ LET s1 == IF size > 0
                 THEN [Start EXCEPT !.audioChunks = Append(@, [rec |-> r, size |-> size]),
                                    !.recorders[r].emitted = Append(@, size)]
                 ELSE Start
           s2 == [s1 EXCEPT !.recorders[r].stopEvt = FALSE,
                            !.recorders[r].emitted = <<>>,
                            !.finalized = [rec |-> r,
                                           emitted |-> s1.recorders[r].emitted,
                                           published |-> ~blobThrows]]
       IN Commit(processRecording(stopConnectionMonitoring(s2), blobThrows))

\* the liveness interval fires
MonitorTick ==
  /\ connectionMonitorInterval
  /\ \E inactiveStopThrows \in StopThrowChoices :
       Commit(IF /\ mediaRecorder # 0
                 /\ recorders[mediaRecorder].state = "inactive"
                 /\ isRecording
              THEN handleRecordingError(Start, inactiveStopThrows)
              ELSE Start)

\* click on the download button: downloadRecording
DownloadClick ==
  /\ listeners
  /\ download.calls < MaxDownloads
  /\ \E blobThrows \in BOOLEAN :
       Commit([downloadRecording(Start, blobThrows) EXCEPT !.download.calls = @ + 1])

\* the 100 ms timer of downloadRecording fires: the link goes, the URL is revoked
DownloadCleanup ==
  /\ download.urls > 0
  /\ Commit([Start EXCEPT !.download.urls = @ - 1])

\* ------------------------------------------------------ specifications
\* The object as the constructor leaves it, with initializeRecorder run up
\* to its first await. What index.html gives the buttons is not in the
\* source: either value.
Constructed(name, features, support, live, saved, recordOff, stopOff) ==
  LET s0 == [browserName |-> name, featuresOk |-> features, typeSupport |-> support,
             perm |-> live, persisted |-> saved, subscribed |-> FALSE,
             supportedMimeTypes |-> <<>>, primaryMimeType |-> Undefined,
             mediaRecorder |-> 0, audioChunks |-> <<>>, isRecording |-> FALSE,
             permissionGranted |-> FALSE, retryAttempts |-> 0,
             connectionMonitorInterval |-> FALSE, streamRetryTimeout |-> FALSE,
             listeners |-> FALSE, recordButtonDisabled |-> recordOff,
             stopButtonDisabled |-> stopOff, permissionSection |-> "hidden",
             status |-> "none", oldUrl |-> 0, audioContainerShown |-> FALSE,
             recorders |-> [r \in RecorderIds |-> NoRecorder], leakedStreams |-> 0,
             liveUrls |-> {}, urlCount |-> 0,
             calls |-> [k \in CallKeys |-> 0], initPc |-> "done",
             compat |-> "none", asked |-> support, negotiationRuns |-> 0,
             retriesScheduled |-> 0,
             artifact |-> NoArtifact, finalized |-> NotFinalized,
             getUserMediaCalls |-> 0, tried |-> <<>>, download |-> NoDownload,
             uncaught |-> FALSE]
      s1 == checkBrowserCompatibility(s0)
  IN IF s1.compat # "supported"
     THEN updateStatus(s1, "incompatible")
     ELSE [s1 EXCEPT !.listeners = TRUE, !.initPc = "query"]

InitFrom(s) ==
  /\ browserName = s.browserName /\ featuresOk = s.featuresOk
  /\ typeSupport = s.typeSupport /\ perm = s.perm
  /\ persisted = s.persisted /\ subscribed = s.subscribed
  /\ supportedMimeTypes = s.supportedMimeTypes
  /\ primaryMimeType = s.primaryMimeType
  /\ mediaRecorder = s.mediaRecorder /\ audioChunks = s.audioChunks
  /\ isRecording = s.isRecording
  /\ permissionGranted = s.permissionGranted
  /\ retryAttempts = s.retryAttempts
  /\ connectionMonitorInterval = s.connectionMonitorInterval
  /\ streamRetryTimeout = s.streamRetryTimeout
  /\ listeners = s.listeners
  /\ recordButtonDisabled = s.recordButtonDisabled
  /\ stopButtonDisabled = s.stopButtonDisabled
  /\ permissionSection = s.permissionSection /\ status = s.status
  /\ oldUrl = s.oldUrl /\ audioContainerShown = s.audioContainerShown
  /\ recorders = s.recorders /\ leakedStreams = s.leakedStreams
  /\ liveUrls = s.liveUrls
  /\ urlCount = s.urlCount /\ calls = s.calls /\ initPc = s.initPc
  /\ compat = s.compat /\ asked = s.asked
  /\ negotiationRuns = s.negotiationRuns
  /\ retriesScheduled = s.retriesScheduled /\ artifact = s.artifact
  /\ finalized = s.finalized /\ getUserMediaCalls = s.getUserMediaCalls
  /\ tried = s.tried /\ download = s.download
  /\ uncaught = s.uncaught

\* The pages a run starts from: a family and the runtime's answers.
Profiles ==
  { <<"chrome",  Answers({"audio/webm", "audio/webm;codecs=opus"})>>,
    <<"firefox", Answers({"audio/ogg;codecs=opus", "audio/webm"})>>,
    <<"unknown", Answers({"audio/wav"})>>,
    <<"safari",  [t \in MimeTypes |-> "throws"]>> }

\* The whole program: every page, every action.
Init ==
  \E p \in Profiles, live \in PermissionStates,
     saved \in {"none"} \cup PermissionStates, recordOff \in BOOLEAN :
    InitFrom(Constructed(p[1], TRUE, p[2], live, saved, recordOff, TRUE))

Next ==
  \/ InitQuerySettles
  \/ PermissionChanges
  \/ SupportChanges
  \/ RecordClick
  \/ PermissionClick
  \/ RetryTimerFires
  \/ ProbeSettles
  \/ AcquisitionSettles
  \/ StopClick
  \/ RecorderData
  \/ RuntimeStops
  \/ RuntimeError
  \/ StopEvent
  \/ MonitorTick
  \/ DownloadClick
  \/ DownloadCleanup

Spec == Init /\ [][Next]_vars

\* The three specifications below restrict Spec to one part of the program
\* each: a smaller Init and some of the actions of Next, so that every
\* behaviour of theirs is a behaviour of Spec.

\* Negotiation: any family, any answers of the runtime, which may change
\* before startRecording runs the negotiation again.
InitNegotiate ==
  \E name \in BrowserNames, features \in BOOLEAN,
     support \in [MimeTypes -> SupportAnswers] :
    InitFrom(Constructed(name, features, support, "granted", "none", TRUE, TRUE))

NextNegotiate ==
  \/ InitQuerySettles
  \/ SupportChanges
  \/ RecordClick

SpecNegotiate == InitNegotiate /\ [][NextNegotiate]_vars

\* Permission: the permission state changes, requests fail and are retried.
InitPermission ==
  \E live \in PermissionStates, saved \in {"none"} \cup PermissionStates,
     recordOff \in BOOLEAN :
    InitFrom(Constructed("chrome", TRUE, Answers({"audio/webm"}), live, saved,
                         recordOff, TRUE))

NextPermission ==
  \/ InitQuerySettles
  \/ PermissionChanges
  \/ RecordClick
  \/ PermissionClick
  \/ RetryTimerFires
  \/ ProbeSettles
  \/ AcquisitionSettles

SpecPermission == InitPermission /\ [][NextPermission]_vars

\* Recording sessions: the permission is granted and stays so.
InitSession ==
  \E p \in { <<"chrome",  Answers({"audio/webm", "audio/webm;codecs=opus"})>>,
              <<"unknown", Answers({"audio/wav"})>> },
     recordOff \in BOOLEAN :
    InitFrom(Constructed(p[1], TRUE, p[2], "granted", "none", recordOff, TRUE))

NextSession ==
  \/ InitQuerySettles
  \/ RecordClick
  \/ AcquisitionSettles
  \/ StopClick
  \/ RecorderData
  \/ RuntimeStops
  \/ RuntimeError
  \/ StopEvent
  \/ MonitorTick

SpecSession == InitSession /\ [][NextSession]_vars

\* Retries: the microphone is denied throughout, so every getUserMedia
\* fails; the user clicks before any failure and then no more. Timers fire
\* and promises settle.
InitRetry ==
  \E p \in { <<"chrome",  Answers({"audio/webm", "audio/webm;codecs=opus"})>>,
              <<"unknown", Answers({"audio/wav"})>> },
     saved \in {"none"} \cup PermissionStates, recordOff \in BOOLEAN :
    InitFrom(Constructed(p[1], TRUE, p[2], "denied", saved, recordOff, TRUE))

NoFailureYet == retryAttempts = 0 /\ ~streamRetryTimeout

FirstRecordClick == NoFailureYet /\ RecordClick

FirstPermissionClick == NoFailureYet /\ PermissionClick

NextRetry ==
  \/ InitQuerySettles
  \/ FirstRecordClick
  \/ FirstPermissionClick
  \/ RetryTimerFires
  \/ ProbeSettles
  \/ AcquisitionSettles

SpecRetry ==
  /\ InitRetry /\ [][NextRetry]_vars
  /\ WF_vars(InitQuerySettles) /\ WF_vars(RetryTimerFires)
  /\ WF_vars(ProbeSettles) /\ WF_vars(AcquisitionSettles)

\* The audio/wav scenario: an unknown family whose runtime accepts only
\* audio/wav; one start, the permission request and the acquisition succeed,
\* the recorder is constructed with the primary format and started, chunks
\* arrive, the user stops, the blob is built.
InitScenario ==
  \E live \in {"prompt", "granted"}, saved \in {"none"} \cup PermissionStates,
     recordOff \in BOOLEAN :
    InitFrom(Constructed("unknown", TRUE, Answers({"audio/wav"}), live, saved,
                         recordOff, TRUE))

OnlyStart == NumCalls(Cur) = 0 /\ NumRecorders(Cur) = 0 /\ RecordClick

PermissionGranted ==
  ProbeSettles /\ status' = "ready" /\ leakedStreams' = leakedStreams

CaptureStarts ==
  AcquisitionSettles /\ isRecording' /\ leakedStreams' = leakedStreams

Finalized == StopEvent /\ urlCount' = urlCount + 1

NextScenario ==
  \/ InitQuerySettles
  \/ OnlyStart
  \/ PermissionGranted
  \/ CaptureStarts
  \/ RecorderData
  \/ StopClick
  \/ Finalized

SpecScenario == InitScenario /\ [][NextScenario]_vars

\* Downloads: every family, with a runtime that accepts one format (or, for
\* chrome, two, so that the fallback format can be the one used); one
\* recording, and clicks on the download button at any time.
InitDownload ==
  \E name \in BrowserNames, support \in LaterSupport \ {Answers({})},
     recordOff \in BOOLEAN :
    \/ InitFrom(Constructed(name, TRUE, support, "granted", "none", recordOff, TRUE))
    \/ InitFrom(Constructed("chrome", TRUE,
                            Answers({"audio/webm", "audio/webm;codecs=opus"}),
                            "granted", "none", recordOff, TRUE))

NextDownload ==
  \/ InitQuerySettles
  \/ OnlyStart
  \/ CaptureStarts
  \/ RecorderData
  \/ StopClick
  \/ Finalized
  \/ DownloadClick
  \/ DownloadCleanup

SpecDownload == InitDownload /\ [][NextDownload]_vars

\* A start without permission: the live permission is 'prompt', the user
\* clicks record once, before anything failed or was granted, and then no
\* more. Every requestPermission call is the one startRecording awaits or a
\* retry scheduled after its failure.
InitPending ==
  \E p \in { <<"chrome",  Answers({"audio/webm", "audio/webm;codecs=opus"})>>,
              <<"unknown", Answers({"audio/wav"})>> },
     saved \in {"none", "prompt", "denied"}, recordOff \in BOOLEAN :
    InitFrom(Constructed(p[1], TRUE, p[2], "prompt", saved, recordOff, TRUE))

StartWithoutPermission == NoFailureYet /\ ~permissionGranted /\ OnlyStart

NextPending ==
  \/ InitQuerySettles
  \/ StartWithoutPermission
  \/ RetryTimerFires
  \/ ProbeSettles
  \/ AcquisitionSettles
  \/ RecorderData

SpecPending == InitPending /\ [][NextPending]_vars

\* Stops without a recording: the page may show the stop button enabled from
\* the start (what index.html gives it is not in the source), so that it can
\* be clicked with nothing recording.
InitIdleStop ==
  \E p \in { <<"chrome",  Answers({"audio/webm", "audio/webm;codecs=opus"})>>,
              <<"unknown", Answers({"audio/wav"})>> },
     recordOff \in BOOLEAN, stopOff \in BOOLEAN :
    InitFrom(Constructed(p[1], TRUE, p[2], "granted", "none", recordOff, stopOff))

IdleStopClick == ~(mediaRecorder # 0 /\ isRecording) /\ StopClick

RecordingStopClick == mediaRecorder # 0 /\ isRecording /\ StopClick

NextIdleStop ==
  \/ InitQuerySettles
  \/ RecordClick
  \/ AcquisitionSettles
  \/ IdleStopClick
  \/ RecordingStopClick
  \/ RecorderData
  \/ StopEvent

SpecIdleStop == InitIdleStop /\ [][NextIdleStop]_vars

\* One request: the microphone is denied throughout; the user asks for it
\* once, by the permission button or by a start without permission, and
\* then no more.
InitOneRequest ==
  \E p \in { <<"chrome",  Answers({"audio/webm", "audio/webm;codecs=opus"})>>,
              <<"unknown", Answers({"audio/wav"})>> },
     saved \in {"none", "prompt", "denied"}, recordOff \in BOOLEAN :
    InitFrom(Constructed(p[1], TRUE, p[2], "denied", saved, recordOff, TRUE))

NothingAsked == NoFailureYet /\ NumCalls(Cur) = 0

OnlyRecordClick == NothingAsked /\ RecordClick

OnlyPermissionClick == NothingAsked /\ PermissionClick

NextOneRequest ==
  \/ InitQuerySettles
  \/ OnlyRecordClick
  \/ OnlyPermissionClick
  \/ RetryTimerFires
  \/ ProbeSettles

SpecOneRequest == InitOneRequest /\ [][NextOneRequest]_vars

\* Creation of the capture session: every family, with runtimes that accept
\* six, three or one format, so that there are several fallback candidates,
\* one or none; the permission is granted.
InitCreate ==
  \E name \in BrowserNames,
     yes \in {MimeTypes, {"audio/webm", "audio/ogg", "audio/wav"}, {"audio/wav"}} :
    InitFrom(Constructed(name, TRUE, Answers(yes), "granted", "none", TRUE, TRUE))

NextCreate ==
  \/ InitQuerySettles
  \/ RecordClick
  \/ AcquisitionSettles
  \/ StopClick
  \/ StopEvent

SpecCreate == InitCreate /\ [][NextCreate]_vars

\* ------------------------------------------------------ properties
Range(list) == {list[i] : i \in 1..Len(list)}

Recording == {r \in RecorderIds : recorders[r].state = "recording"}

Held == {r \in RecorderIds : recorders[r].streamActive}

\* C1: two startRecording calls with no stop between them leave at most one
\* capture session recording and at most one acquired stream unreleased.
\* Two recorders in state 'recording' have never been stopped, so a state
\* that breaks this has had no effective stopRecording.
C1_OneStreamOneCapture ==
  Cardinality(Recording) <= 1 /\ Cardinality(Held) <= 1

\* C2: a handler that runs stopRecording while isRecording is set leaves the
\* stream of the capture session released, whether stop() returned
\* (isRecording is cleared) or threw (the handler ended uncaught); the
\* finalization of that session runs in a later step.
C2_StopReleasesStream ==
  [][(isRecording /\ (~isRecording' \/ uncaught'))
       => ~recorders'[mediaRecorder'].streamActive]_vars

\* C3: the fatal message is shown only after maxRetryAttempts (3) retries
\* have been scheduled since the counter was last 0.
C3_ThreeRetriesThenFailed ==
  status = "permFatal" => retriesScheduled = maxRetryAttempts

\* C4: after a negotiation that found no supported type, primaryMimeType
\* holds no encoding, also when an earlier negotiation had selected one.
C4_NoPrimaryWhenAllRejected ==
  compat = "noFormats" => primaryMimeType = Undefined

\* the first entry of `list` that is in the family's preference list
FirstPreferred(list) ==
  list[CHOOSE i \in 1..Len(list) :
         /\ list[i] \in Range(preferredTypes(browserName))
         /\ \A j \in 1..(i - 1) : list[j] \notin Range(preferredTypes(browserName))]

FallbackList == <<"audio/webm", "audio/ogg", "audio/wav", "audio/mp4">>

\* the entries of `list` from position i on that the runtime accepted and
\* that are not in `seen`
RECURSIVE Accepted(_, _, _)
Accepted(list, i, seen) ==
  IF i > Len(list) THEN <<>>
  ELSE IF asked[list[i]] = "yes" /\ list[i] \notin seen
       THEN <<list[i]>> \o Accepted(list, i + 1, seen)
       ELSE Accepted(list, i + 1, seen)

RECURSIVE SumSeq(_)
SumSeq(sizes) == IF sizes = <<>> THEN 0 ELSE sizes[1] + SumSeq(Tail(sizes))

\* C7: the artifact finalization built for a capture session has the byte
\* length of all the non-empty chunks that session delivered.
C7_ArtifactIsSumOfChunks ==
  finalized.published => artifact.size = SumSeq(finalized.emitted)

\* C8: at most one object URL made for playback is live, and it is the one
\* the player shows.
C8_OnePlaybackUrl ==
  Cardinality(liveUrls) <= 1 /\ (liveUrls # {} => liveUrls = {oldUrl})

\* C8 witness: a second recording was finalized and exposed.
C8_SecondArtifactExposed ==
  urlCount = 2 /\ liveUrls = {2}

\* C9: once the events of a capture session that stopped on its own have
\* been handled, the controller is not left recording on an inactive
\* capture session.
C9_UnexpectedStopFails ==
  ~(/\ isRecording
    /\ mediaRecorder # 0
    /\ finalized.rec = mediaRecorder
    /\ recorders[mediaRecorder].state = "inactive"
    /\ ~recorders[mediaRecorder].stopEvt)

\* C10: with isRecording false and no stop event outstanding, the liveness
\* interval is not pending.
C10_MonitorOnlyWhileRecording ==
  (~isRecording /\ \A r \in RecorderIds : ~recorders[r].stopEvt)
    => ~connectionMonitorInterval

\* C11: once permission has been granted or a recording has started, no
\* retry timer set by handlePermissionError is still pending.
C11_NoStaleRetryTimer ==
  (permissionGranted \/ isRecording) => ~streamRetryTimeout

\* C12: when the permission query at startup succeeds, initializeRecorder
\* leaves permissionGranted and the record button as the live permission
\* dictates, whatever value was persisted.
C12_LiveQueryWins ==
  [][(initPc = "query" /\ initPc' = "done" /\ subscribed')
       => /\ permissionGranted' = (perm = "granted")
          /\ recordButtonDisabled' = (perm # "granted")]_vars

\* C13: getSupportedMimeTypes runs at most once, at startup, and no later
\* step assigns supportedMimeTypes or primaryMimeType another value.
C13_NegotiatedOnce ==
  /\ [](negotiationRuns <= 1)
  /\ [][/\ supportedMimeTypes' = supportedMimeTypes
        /\ primaryMimeType' = primaryMimeType]_vars

\* C14: while supportedMimeTypes is empty no call is waiting for a device
\* stream and no capture session is recording.
C14_NoAttemptWithoutFormats ==
  supportedMimeTypes = <<>> => (NumCalls(Cur) = 0 /\ Recording = {})

\* C15: the retry counter stays between 0 and its ceiling.
C15_RetryCounterBounded ==
  retryAttempts >= 0 /\ retryAttempts <= maxRetryAttempts

\* the messages updateStatus shows with type 'error'
ErrorStatuses ==
  {"permFatal", "recFailed", "denied", "permCheckFailed", "incompatible",
   "processError"}

\* C16: with every acquisition failing, once the user clicks no more the
\* retries come to an end: from some point on no call is in flight and no
\* retry timer is pending; a failure that schedules no retry shows an
\* error; and one getAudioStream call makes at most maxRetryAttempts + 1
\* attempts.
C16_RetriesEnd ==
  /\ \A got \in Outcomes : got.attempts <= maxRetryAttempts + 1
  /\ <>[][~(FirstRecordClick \/ FirstPermissionClick)]_vars
       => <>[](NumCalls(Cur) = 0 /\ ~streamRetryTimeout)
  /\ [][(retryAttempts' > retryAttempts /\ ~streamRetryTimeout')
          => status' \in ErrorStatuses]_vars

\* C16 witness: the retries have run out after a failed request.
C16_RetriesExhausted ==
  /\ retryAttempts = maxRetryAttempts
  /\ NumCalls(Cur) = 0 /\ ~streamRetryTimeout
  /\ status = "permFatal"

\* C17: when the controller is not recording and no call, stop event or
\* retry is outstanding, no stream that getUserMedia returned is still
\* active.
C17_MicrophoneReleasedWhenIdle ==
  (/\ ~isRecording
   /\ NumCalls(Cur) = 0
   /\ \A r \in RecorderIds : ~recorders[r].stopEvt)
    => (leakedStreams = 0 /\ Held = {})

\* The state of the session controller, read off the fields.
Phase ==
  IF isRecording THEN "Recording"
  ELSE IF \E r \in RecorderIds : recorders[r].stopEvt THEN "Finalizing"
  ELSE IF NumCalls(Cur) > 0 THEN "AwaitingPermission"
  ELSE IF urlCount > 0 THEN "Ready"
  ELSE "Idle"

PhaseOrder ==
  {<<"Idle", "AwaitingPermission">>, <<"AwaitingPermission", "Recording">>,
   <<"Recording", "Finalizing">>, <<"Finalizing", "Ready">>}

\* C18: in the audio/wav scenario the list is [audio/wav] and the primary
\* audio/wav, the controller goes Idle, AwaitingPermission, Recording,
\* Finalizing, Ready in that order, and the recorder and the artifact carry
\* audio/wav.
C18_WavScenario ==
  /\ [](supportedMimeTypes = <<"audio/wav">> /\ primaryMimeType = "audio/wav")
  /\ [][Phase' # Phase => <<Phase, Phase'>> \in PhaseOrder]_vars
  /\ [](\A r \in RecorderIds :
          recorders[r].state # "none" => recorders[r].mimeType = "audio/wav")
  /\ [](Phase = "Ready" => artifact.type = "audio/wav")

\* C18 witness: started before any permission was granted (the startup query
\* is still pending), the permission request succeeded, chunks arrived, the
\* user stopped, and the artifact is exposed.
C18_ReadyAfterPermission ==
  /\ initPc = "query" /\ permissionGranted
  /\ Phase = "Ready"
  /\ artifact = [size |-> 4, type |-> "audio/wav"]

\* ---- C19
\* The subtype of each format, with its parameters left out.
Subtype(mimeType) ==
  IF mimeType \in {"audio/webm", "audio/webm;codecs=opus"} THEN "webm"
  ELSE IF mimeType \in {"audio/ogg", "audio/ogg;codecs=opus"} THEN "ogg"
  ELSE IF mimeType = "audio/wav" THEN "wav" ELSE "mp4"

\* The controller, the page and the runtime objects, without the record of
\* the downloads.
Program == [Cur EXCEPT !.download = NoDownload, !.uncaught = FALSE]

\* C19: a call of downloadRecording with a non-empty buffer that does not
\* throw offers one file, named recording.<ext>, where <ext> is the subtype
\* of the recorder's format without parameters, and 'wav' instead of 'webm'
\* when the family is not chrome; a call with an empty buffer offers no file
\* and changes nothing.
C19_DownloadName ==
  [][download.calls' = download.calls + 1 =>
       IF audioChunks = <<>>
       THEN /\ Program' = Program
            /\ download' = [download EXCEPT !.calls = @ + 1]
       ELSE status' # "downloadError" =>
              /\ download'.files = download.files + 1
              /\ mediaRecorder # 0
              /\ LET ext == Subtype(recorders[mediaRecorder].mimeType)
                 IN download'.name =
                      <<"recording", ".",
                        IF ext = "webm" /\ browserName # "chrome" THEN "wav" ELSE ext>>]_vars

\* C19, reached: in a family other than chrome a webm recording was
\* downloaded as recording.wav after a click that found the buffer empty.
C19_WebmSavedAsWav ==
  /\ browserName # "chrome" /\ mediaRecorder # 0
  /\ Subtype(recorders[mediaRecorder].mimeType) = "webm"
  /\ download.calls = 2 /\ download.files = 1
  /\ download.name = <<"recording", ".", "wav">>

\* ---- C20
\* C20: when the stop event of a recorder is handled and the buffer is
\* empty, no object URL is created, the player keeps its source, the
\* container is not revealed and no artifact is recorded.
C20_EmptyBufferNoArtifact ==
  [][((\E r \in RecorderIds : recorders[r].stopEvt /\ ~recorders'[r].stopEvt)
        /\ audioChunks' = <<>>)
       => /\ urlCount' = urlCount /\ liveUrls' = liveUrls
          /\ oldUrl' = oldUrl
          /\ audioContainerShown' = audioContainerShown
          /\ artifact' = artifact]_vars

\* ---- C21
\* C21: whenever a requestPermission made for a pending start (the one
\* startRecording awaits, or a scheduled retry of it) ends with the
\* permission granted, the start goes on to acquire its stream.
C21_GrantResumesStart ==
  [][(~permissionGranted /\ permissionGranted' /\ calls' # calls)
       => calls'["startAcq"] > 0]_vars

\* ---- C22
\* C22: when the rest of startRecording runs after getAudioStream settled and
\* starts no capture, it leaves no active stream behind: none unreferenced,
\* none held by a recorder that held none before.
C22_FailedStartReleasesStream ==
  [][(calls'["startAcq"] < calls["startAcq"] /\ Recording' \subseteq Recording)
       => (leakedStreams' = leakedStreams /\ Held' \subseteq Held)]_vars

\* ---- C23
\* The negotiated candidates other than the primary format, in list order.
Others == SelectSeq(supportedMimeTypes, LAMBDA format : format # primaryMimeType)

NewRecorders == {r \in RecorderIds : recorders[r].state = "none" /\ recorders'[r].state # "none"}

C24_ArtifactTaggedWithUsedFormat ==
  [][urlCount' > urlCount =>
       \A i \in 1..Len(audioChunks') :
         recorders'[audioChunks'[i].rec].mimeType = artifact'.type]_vars

\* ---- C25
\* C25: a step that grants the permission (requestPermission succeeds, or the
\* startup query or a change notification reports 'granted') leaves the
\* retry counter at zero.
C25_GrantResetsRetryCounter ==
  [][(~permissionGranted /\ permissionGranted') => retryAttempts' = 0]_vars

\* ---- C26
\* C26: the getUserMedia calls that follow one request of the user, its
\* scheduled retries included, are at most 1 + maxRetryAttempts.
C26_AtMostFourRequests == getUserMediaCalls <= 1 + maxRetryAttempts

\* ---- C27
\* Some audio track of the stream is enabled and live.
HasUsableTrack(shape) == \E i \in 1..Len(shape) : shape[i].enabled /\ shape[i].live

Begins(r) == recorders[r].state # "recording" /\ recorders'[r].state = "recording"

\* the stop event of recorder r is handled
Finalizes(r) == recorders[r].stopEvt /\ ~recorders'[r].stopEvt

\* C28: the buffer is empty when a recorder begins to record; while the
\* controller records and no recorder begins, the buffer only grows at its
\* end; when the stop event of a recorder is handled the buffer holds the
\* non-empty chunks of that recorder, in the order it delivered them, and
\* nothing else.
C28_BufferOfOneSession ==
  [][/\ (\E r \in RecorderIds : Begins(r)) => audioChunks' = <<>>
     /\ (isRecording /\ isRecording' /\ ~\E r \in RecorderIds : Begins(r))
          => /\ Len(audioChunks') >= Len(audioChunks)
             /\ SubSeq(audioChunks', 1, Len(audioChunks)) = audioChunks
     /\ \A r \in RecorderIds : Finalizes(r) =>
          /\ \A i \in 1..Len(audioChunks') : audioChunks'[i].rec = r
          /\ [i \in 1..Len(audioChunks') |-> audioChunks'[i].size] = finalized'.emitted]_vars

\* ---- C29
\* C29: when a recorder begins to record, no object URL of an earlier
\* finalization is left unrevoked and the buffer is empty.
C29_RestartDiscardsArtifact ==
  [][(\E r \in RecorderIds : Begins(r)) => (liveUrls' = {} /\ audioChunks' = <<>>)]_vars

\* ---- C30
\* C30: the stop event of a recorder that is not the current one, handled
\* while the current one records, leaves the liveness interval pending and
\* publishes nothing.
C30_StaleStopIgnored ==
  [][\A r \in RecorderIds :
       (/\ Finalizes(r) /\ r # mediaRecorder /\ mediaRecorder # 0
        /\ recorders[mediaRecorder].state = "recording" /\ isRecording)
         => /\ connectionMonitorInterval' = connectionMonitorInterval
            /\ urlCount' = urlCount /\ oldUrl' = oldUrl
            /\ artifact' = artifact]_vars

\* ---- C31
\* C31: while isRecording is set the record button is disabled and the stop
\* button is enabled.
C31_ButtonsWhileRecording ==
  isRecording => (recordButtonDisabled /\ ~stopButtonDisabled)

\* ---- C32
\* C32: a handler in which mediaRecorder.stop() threw inside stopRecording
\* ends with isRecording false and the stream of the recorder released.
C32_StopErrorHandled ==
  uncaught => /\ ~isRecording
              /\ mediaRecorder # 0 => ~recorders[mediaRecorder].streamActive

\* ---- C33
\* C33: with no recorder or with isRecording false, stopRecording leaves
\* every field, the page and the runtime objects as they are: as a function
\* of the state, and in every click on the stop button.
C33_IdleStopIsNoOp ==
  /\ [](~(mediaRecorder # 0 /\ isRecording)
          => \A inactiveStopThrows \in BOOLEAN :
               stopRecording(Cur, inactiveStopThrows) = Cur)
  /\ [][IdleStopClick => UNCHANGED vars]_vars

\* C33, reached: mediaRecorder.start threw, handleRecordingError called
\* stopRecording with isRecording false, and the stop button, which the page
\* showed enabled, is still enabled next to the recorder that never recorded.
C33_StopButtonUntouched ==
  /\ mediaRecorder # 0 /\ recorders[mediaRecorder].state = "inactive"
  /\ ~isRecording /\ status = "recFailed" /\ ~stopButtonDisabled
  /\ recorders[mediaRecorder].streamActive = FALSE

====
